---- MODULE Spec2Model ----
(***************************************************************************)
(* Model of the arXiv batch downloader: the orchestrator of main.py with   *)
(* its thread pool, the progress ledger config["progress"] shared by the   *)
(* workers, and the ledger file config.json written by save_config.        *)
(***************************************************************************)
EXTENDS Integers, Sequences, FiniteSets, TLC

\* ------------------------------------------------------------------ bounds
RangeLen == 2        \* number of offsets in the configured range
max_workers == 2     \* size of the thread pool; settings["max_workers"]

\* --------------------------------------------------------- program constants
Start == 5271
prefix == <<"2", "4", "1", "2">>

\* progress["end"] of the configured range, and of a range one longer
End == Start + RangeLen - 1
LongEnd == End + 1

\* every offset a configured range holds
Offsets == Start..LongEnd
Free == 0

VARIABLES
    disk,               \* the "progress" record stored in config.json
    progress,           \* config["progress"] in memory
    startup,            \* the record load_config returned to this run
    papers_to_process,  \* the work list of this run (offsets)
    future,             \* per offset: its future, and while it runs the
                        \* place its pool thread has reached in process_paper
    success,            \* per offset: the success flag process_paper returns
    yielded,            \* offsets as_completed has handed to the main loop
    mainpc,             \* where the main thread is
    config_lock,        \* holder of shared.config_lock: an offset, or Free
    report,             \* what the finally block of main() has produced
    paper_records,      \* per offset: its records in PaperMetrics.papers
    keep_extensions,    \* settings["keep_extensions"]
    latest_v,           \* download_paper: number of versions of the paper
    v,                  \* download_paper: the version the loop is at
    blob,               \* what arxiv.org served for the last version asked
    fault,              \* the step of the last call the environment failed
    result,             \* outcome of the last download_and_extract_tex_bib
    save_dir,           \* names of the files the last call left in save_dir
    total_size_before,  \* download_paper: bytes before, summed over versions
    total_size_after,   \* download_paper: bytes kept, summed over versions
    pipe,               \* per worker: the download_paper call it is inside
    arxiv_download_lock,\* holder of downloader.arxiv_download_lock, or Free
    collector,          \* the fields of a MetricsCollector
    monitor,            \* per monitor thread: its place in _monitor_loop
    caller,             \* the thread that calls the MetricsCollector
    checkpoint,         \* system_metrics_checkpoint.json on disk
    writers,            \* the threads that have the file open, 0 the caller
    paper_metrics,      \* the fields of a PaperMetrics
    statistics          \* the get_statistics call going on, its result

\* the state of one download_paper call and of its last normalizer call
norm_vars == <<keep_extensions, latest_v, v, blob, fault, result, save_dir,
               total_size_before, total_size_after>>

\* the state of the orchestrator
main_vars == <<disk, progress, startup, papers_to_process, future, success,
               yielded, mainpc, config_lock, report, paper_records>>

\* the download_paper calls of concurrent workers
pipe_vars == <<pipe, arxiv_download_lock>>

\* the system sampler with its checkpoint file, and the per-item statistics
metric_vars == <<collector, monitor, caller, checkpoint, writers,
                 paper_metrics, statistics>>

vars == <<main_vars, norm_vars, pipe_vars, metric_vars>>

\* ------------------------------------------------------------- identifiers
Range(s) == {s[k] : k \in DOMAIN s}

Digit(d) ==
    CASE d = 0 -> "0" [] d = 1 -> "1" [] d = 2 -> "2" [] d = 3 -> "3"
      [] d = 4 -> "4" [] d = 5 -> "5" [] d = 6 -> "6" [] d = 7 -> "7"
      [] d = 8 -> "8" [] d = 9 -> "9"

\* f"{i:05d}" for 0 <= i <= 99999
Pad5(i) ==
    <<Digit((i \div 10000) % 10), Digit((i \div 1000) % 10),
      Digit((i \div 100) % 10), Digit((i \div 10) % 10), Digit(i % 10)>>

\* f"{progress['prefix']}.{i:05d}"
arxiv_id_of(i) == prefix \o <<".">> \o Pad5(i)

\* the identifier cut down to its prefix
format_arxiv_id_prefix(s) == SubSeq(s, 1, Len(prefix))

\* arxiv_id.replace('.', '-')
format_arxiv_id(s) == [k \in DOMAIN s |-> IF s[k] = "." THEN "-" ELSE s[k]]

safe_id_of(i) == format_arxiv_id(arxiv_id_of(i))

\* ------------------------------------------------------------------ ledger
\* lst.append(x) without the membership test
AppendAlways(lst, x) == Append(lst, x)

\* if x not in lst: lst.append(x)
AppendIfAbsent(lst, x) == IF x \in Range(lst) THEN lst ELSE Append(lst, x)

\* the "progress" part of the default configuration
DefaultProgress(end) ==
    [start |-> Start, end |-> end, current |-> Start,
     completed_papers |-> <<>>, failed_papers |-> <<>>]

\* load_config taking its "file does not exist" branch for an existing file
load_config_default(file) == DefaultProgress(file.end)

\* json.load of the file: the record that was dumped
load_config(file) == file

\* json.dump of the whole configuration: the file holds the record
save_config(config) == config

Max(a, b) == IF a >= b THEN a ELSE b

\* the cursor update without max: the offset of the future just handled
AdvanceCursorToLast(current, idx) == idx

\* progress["current"] = max(progress["current"], idx)
AdvanceCursor(current, idx) == Max(current, idx)

\* range(a, b + 1) as a sequence
RangeSeq(a, b) == IF b < a THEN <<>> ELSE [k \in 1..(b - a + 1) |-> a + k - 1]

NotCompleted(p, i) == safe_id_of(i) \notin Range(p.completed_papers)

\* the work list built without the "already completed" test
BuildWorkListNoSkip(p) == RangeSeq(p.current, p.end)

\* the loop that builds papers_to_process
BuildWorkList(p) ==
    SelectSeq(RangeSeq(p.current, p.end), LAMBDA i : NotCompleted(p, i))

\* executor.submit for every entry of the work list
SubmitAll(work) ==
    [i \in Offsets |-> IF i \in Range(work) THEN "pending" ELSE "none"]

\* ------------------------------------------------------------- thread pool
InWorker == {"download_paper", "config_lock", "save_config", "sleep"}

\* work items a pool thread is running
Running == {i \in Offsets : future[i] \in InWorker}

\* the pool's work queue: submitted items no thread has taken, in order
Queue == SelectSeq(papers_to_process, LAMBDA i : future[i] = "pending")

\* ------------------------------------------------------------ construction
\* the finally block of main() has not run
NoReport ==
    [status |-> "none", attempted |-> 0, successful |-> 0, failed |-> 0]

\* no blob: nothing has been asked of arxiv.org
NoBlob ==
    [kind |-> "none", members |-> <<>>, fname |-> <<>>, content |-> <<>>,
     pdf |-> FALSE]

\* no call of download_and_extract_tex_bib has been made
NoResult ==
    [raised |-> FALSE, success |-> FALSE, size_before |-> 0, size_after |-> 0]

\* no download_paper call is being followed
NoDownload ==
    /\ keep_extensions = {}
    /\ latest_v = 0
    /\ v = 1
    /\ blob = NoBlob
    /\ fault = "none"
    /\ result = NoResult
    /\ save_dir = {}
    /\ total_size_before = 0
    /\ total_size_after = 0

\* main() up to the submission of every work item to the pool
StartRun(file) ==
    LET p == load_config(file)
        work == BuildWorkList(p)
    IN  /\ progress' = p
        /\ startup' = p
        /\ papers_to_process' = work
        /\ future' = SubmitAll(work)
        /\ success' = [i \in Offsets |-> FALSE]
        /\ yielded' = {}
        /\ mainpc' = "loop"
        /\ config_lock' = Free
        /\ report' = NoReport
        /\ paper_records' = [i \in Offsets |-> 0]

\* the first run of main() on a configuration file with the given range
FirstRun(file) ==
    /\ disk = file
    /\ progress = load_config(file)
    /\ startup = load_config(file)
    /\ papers_to_process = BuildWorkList(load_config(file))
    /\ future = SubmitAll(BuildWorkList(load_config(file)))
    /\ success = [i \in Offsets |-> FALSE]
    /\ yielded = {}
    /\ mainpc = "loop"
    /\ config_lock = Free
    /\ report = NoReport
    /\ paper_records = [i \in Offsets |-> 0]

\* a JSON null, Python's None
null == "null"

\* no checkpoint file
NoFile ==
    [state |-> "absent", samples |-> <<>>, peak_ram_mb |-> 0,
     peak_disk_mb |-> 0, start_time |-> null]

\* MetricsCollector.__init__; monitor_thread numbers the threads created
NewCollector ==
    [samples |-> <<>>, monitoring |-> FALSE, monitor_thread |-> 0,
     peak_ram_mb |-> 0, peak_disk_mb |-> 0, start_time |-> null]

\* the thread that uses the collector has called nothing; loaded is what
\* its load_checkpoint call has read
NewCaller == [pc |-> "idle", data |-> NoFile, loaded |-> NoFile]

\* PaperMetrics.__init__; papers holds the 'success' of each record,
\* loaded what load_checkpoint has read, completed the number of add_paper
\* calls that have returned
NewPaperMetrics ==
    [papers |-> <<>>, start_time |-> null, completed |-> 0,
     loaded |-> [papers |-> <<>>, start_time |-> null]]

\* no get_statistics call is going on
NoStatistics ==
    [pc |-> "idle", successful |-> 0, failed |-> 0,
     total_papers_attempted |-> 0, completed |-> 0]

\* nobody has used the metrics collectors
NoMetrics ==
    /\ collector = NewCollector
    /\ monitor = <<>>
    /\ caller = NewCaller
    /\ checkpoint = NoFile
    /\ writers = {}
    /\ paper_metrics = NewPaperMetrics
    /\ statistics = NoStatistics

\* no worker is inside download_paper
NoPipeline ==
    /\ pipe = <<>>
    /\ arxiv_download_lock = Free

Init ==
    /\ FirstRun(DefaultProgress(End))
    /\ NoDownload
    /\ NoPipeline
    /\ NoMetrics

InitLong ==
    /\ FirstRun(DefaultProgress(LongEnd))
    /\ NoDownload
    /\ NoPipeline
    /\ NoMetrics

\* The process ends (normally, after an interrupt, or killed at any point)
\* and main() is started again on the ledger file.
Restart ==
    /\ StartRun(disk)
    /\ UNCHANGED disk
    /\ UNCHANGED <<norm_vars, pipe_vars, metric_vars>>

\* ------------------------------------------------------------------ workers
\* a pool thread takes the next work item and calls process_paper
TakeTask ==
    /\ Queue # <<>>
    /\ Cardinality(Running) < max_workers
    /\ future' = [future EXCEPT ![Head(Queue)] = "download_paper"]
    /\ UNCHANGED <<norm_vars, pipe_vars, metric_vars>>
    /\ UNCHANGED <<report, paper_records, disk, progress, startup,
                   papers_to_process, success,
                   yielded, mainpc, config_lock>>

\* PaperMetrics.add_paper: one more record for the item
add_paper(records, i) == [records EXCEPT ![i] = @ + 1]

\* download_paper: the pipeline succeeds or raises inside its try block and
\* records the outcome in the ledger, without config_lock; process_paper
\* then hands the outcome to paper_metrics.add_paper
download_paper(i) ==
    /\ future[i] = "download_paper"
    /\ \E ok \in BOOLEAN :
        /\ success' = [success EXCEPT ![i] = ok]
        /\ progress' =
             IF ok
             THEN [progress EXCEPT !.completed_papers =
                      AppendIfAbsent(@, safe_id_of(i))]
             ELSE [progress EXCEPT !.failed_papers =
                      AppendIfAbsent(@, safe_id_of(i))]
    /\ future' = [future EXCEPT ![i] = "config_lock"]
    /\ paper_records' = add_paper(paper_records, i)
    /\ UNCHANGED <<norm_vars, pipe_vars, metric_vars>>
    /\ UNCHANGED <<report, disk, startup, papers_to_process, yielded, mainpc,
                   config_lock>>

\* with config_lock: record the outcome
UpdateProgress(i) ==
    /\ future[i] = "config_lock"
    /\ config_lock = Free
    /\ config_lock' = i
    /\ progress' =
         IF success[i]
         THEN [progress EXCEPT !.completed_papers =
                  AppendIfAbsent(@, safe_id_of(i))]
         ELSE [progress EXCEPT !.failed_papers =
                  AppendIfAbsent(@, safe_id_of(i))]
    /\ future' = [future EXCEPT ![i] = "save_config"]
    /\ UNCHANGED <<norm_vars, pipe_vars, metric_vars>>
    /\ UNCHANGED <<report, paper_records, disk, startup, papers_to_process, success, yielded, mainpc>>

\* the critical section without its save_config call
SaveProgressSkipped(i) ==
    /\ future[i] = "save_config"
    /\ config_lock = i
    /\ config_lock' = Free
    /\ future' = [future EXCEPT ![i] = "sleep"]
    /\ UNCHANGED <<norm_vars, pipe_vars, metric_vars>>
    /\ UNCHANGED <<report, paper_records, disk, progress, startup,
                   papers_to_process, success,
                   yielded, mainpc>>

\* save_config(config, config_path) inside the with block: the file is
\* written and the lock released, or the write raises, the lock is released
\* and the exception ends the work item
SaveProgress(i) ==
    /\ future[i] = "save_config"
    /\ config_lock = i
    /\ config_lock' = Free
    /\ \/ /\ disk' = save_config(progress)
          /\ future' = [future EXCEPT ![i] = "sleep"]
          /\ UNCHANGED success
       \/ /\ future' = [future EXCEPT ![i] = "raised"]
          /\ success' = [success EXCEPT ![i] = FALSE]
          /\ UNCHANGED disk
    /\ UNCHANGED <<norm_vars, pipe_vars, metric_vars>>
    /\ UNCHANGED <<report, paper_records, progress, startup, papers_to_process, yielded, mainpc>>

\* time.sleep(...) and return arxiv_id, success, paper_info
SleepAndReturn(i) ==
    /\ future[i] = "sleep"
    /\ future' = [future EXCEPT ![i] = "returned"]
    /\ UNCHANGED <<norm_vars, pipe_vars, metric_vars>>
    /\ UNCHANGED <<report, paper_records, disk, progress, startup,
                   papers_to_process, success,
                   yielded, mainpc, config_lock>>

\* ---------------------------------------------------------------- main loop
\* the main loop that only prints the exception of a future that raised
AsCompletedDropsRaised ==
    /\ mainpc = "loop"
    /\ config_lock = Free
    /\ \E idx \in Offsets \ yielded :
        /\ future[idx] \in {"returned", "raised"}
        /\ yielded' = yielded \cup {idx}
        /\ progress' =
             IF future[idx] = "returned"
             THEN [progress EXCEPT !.current = AdvanceCursor(@, idx)]
             ELSE progress
    /\ UNCHANGED <<norm_vars, pipe_vars, metric_vars>>
    /\ UNCHANGED <<report, paper_records, disk, startup, papers_to_process, future, success,
                   mainpc, config_lock>>

\* one iteration of "for future in as_completed(future_to_paper)"
AsCompleted ==
    /\ mainpc = "loop"
    /\ config_lock = Free
    /\ \E idx \in Offsets \ yielded :
        /\ future[idx] \in {"returned", "raised"}
        /\ yielded' = yielded \cup {idx}
        /\ progress' =
             IF future[idx] = "returned"
             THEN [progress EXCEPT !.current = AdvanceCursor(@, idx)]
             ELSE [progress EXCEPT !.failed_papers =
                      AppendIfAbsent(@, safe_id_of(idx))]
    /\ UNCHANGED <<norm_vars, pipe_vars, metric_vars>>
    /\ UNCHANGED <<report, paper_records, disk, startup, papers_to_process, future, success, mainpc,
                   config_lock>>

\* as_completed is exhausted, the pool is shut down, "Download completed!"
Completed ==
    /\ mainpc = "loop"
    /\ yielded = Range(papers_to_process)
    /\ mainpc' = "done"
    /\ UNCHANGED <<norm_vars, pipe_vars, metric_vars>>
    /\ UNCHANGED <<report, paper_records, disk, progress, startup, papers_to_process, future,
                   success, yielded, config_lock>>

\* KeyboardInterrupt reaches the main thread inside the with block; the
\* executor's __exit__ then waits for the pool
KeyboardInterrupt ==
    /\ mainpc = "loop"
    /\ mainpc' = "shutdown"
    /\ UNCHANGED <<norm_vars, pipe_vars, metric_vars>>
    /\ UNCHANGED <<report, paper_records, disk, progress, startup, papers_to_process, future,
                   success, yielded, config_lock>>

\* the interrupt handler entered without waiting for the pool to drain
InterruptSaveNoWait ==
    /\ mainpc = "shutdown"
    /\ \/ /\ disk' = save_config(progress)
          /\ mainpc' = "interrupted"
       \/ /\ mainpc' = "raised"
          /\ UNCHANGED disk
    /\ UNCHANGED <<norm_vars, pipe_vars, metric_vars>>
    /\ UNCHANGED <<report, paper_records, progress, startup, papers_to_process, future, success,
                   yielded, config_lock>>

\* the pool has drained; except KeyboardInterrupt: save_config(...), which
\* writes the file, or raises out of the handler
InterruptSave ==
    /\ mainpc = "shutdown"
    /\ Queue = <<>>
    /\ Running = {}
    /\ \/ /\ disk' = save_config(progress)
          /\ mainpc' = "interrupted"
       \/ /\ mainpc' = "raised"
          /\ UNCHANGED disk
    /\ UNCHANGED <<norm_vars, pipe_vars, metric_vars>>
    /\ UNCHANGED <<report, paper_records, progress, startup, papers_to_process, future, success,
                   yielded, config_lock>>

\* ------------------------------------------------------------ final report
\* PaperMetrics.papers: the work items process_paper has handed to add_paper
papers == {i \in Offsets : paper_records[i] > 0}

\* the success flag download_paper returned for an item of papers
paper_success(i) == safe_id_of(i) \in Range(progress.completed_papers)

\* PaperMetrics.get_statistics: the keys of the dictionary it returns that
\* hold the counts, and their values
get_statistics(ps) ==
    IF ps = {}
    THEN [k \in {"total_papers", "successful_papers", "failed_papers"} |-> 0]
    ELSE [k \in {"total_papers_attempted", "successful_papers",
                 "failed_papers"} |->
             CASE k = "total_papers_attempted" -> Cardinality(ps)
               [] k = "successful_papers" ->
                    Cardinality({i \in ps : paper_success(i)})
               [] k = "failed_papers" ->
                    Cardinality({i \in ps : ~paper_success(i)})]

\* the summary main() prints from the statistics: a lookup of a key the
\* dictionary does not hold raises KeyError out of the finally block
Summary(stats) ==
    IF {"total_papers_attempted", "successful_papers", "failed_papers"}
           \subseteq DOMAIN stats
    THEN [status |-> "summary",
          attempted |-> stats["total_papers_attempted"],
          successful |-> stats["successful_papers"],
          failed |-> stats["failed_papers"]]
    ELSE [status |-> "KeyError", attempted |-> 0, successful |-> 0,
          failed |-> 0]

\* the finally block of main(): the collectors are saved, then the summary
\* is printed from get_statistics()
Finally ==
    /\ mainpc \in {"done", "interrupted", "raised"}
    /\ report = NoReport
    /\ report' = Summary(get_statistics(papers))
    /\ UNCHANGED <<norm_vars, pipe_vars, metric_vars>>
    /\ UNCHANGED <<paper_records, disk, progress, startup, papers_to_process, future, success,
                   yielded, mainpc, config_lock>>

Next ==
    \/ Restart
    \/ TakeTask
    \/ \E i \in Offsets : download_paper(i)
    \/ \E i \in Offsets : UpdateProgress(i)
    \/ \E i \in Offsets : SaveProgress(i)
    \/ \E i \in Offsets : SleepAndReturn(i)
    \/ AsCompleted
    \/ Completed
    \/ KeyboardInterrupt
    \/ InterruptSave
    \/ Finally

Spec == Init /\ [][Next]_vars

\* the same program on a range one offset longer
SpecLong == InitLong /\ [][Next]_vars

\* ================================================ archive normalizer
\* ------------------------------------------------------------------ bounds
MaxMembers == 3      \* members of a multi-file archive
MaxVersions == 2     \* versions of one paper

\* ---------------------------------------------------------------- strings
\* file names are sequences of characters, contents sequences of bytes
\* s.count(c)
Count(s, c) == Cardinality({k \in DOMAIN s : s[k] = c})

\* position of the first c in s, 0 when there is none
Find(s, c) ==
    IF \E k \in DOMAIN s : s[k] = c
    THEN CHOOSE k \in DOMAIN s : s[k] = c /\ \A j \in 1..(k - 1) : s[j] # c
    ELSE 0

\* position of the last c in s, 0 when there is none
RFind(s, c) ==
    IF \E k \in DOMAIN s : s[k] = c
    THEN CHOOSE k \in DOMAIN s :
             s[k] = c /\ \A j \in (k + 1)..Len(s) : s[j] # c
    ELSE 0

\* s.split(c)[0]
FirstPart(s, c) ==
    IF Find(s, c) = 0 THEN s ELSE SubSeq(s, 1, Find(s, c) - 1)

\* s.split(c)[-1]
LastPart(s, c) == SubSeq(s, RFind(s, c) + 1, Len(s))

\* len(s.split(c))
SplitLen(s, c) == Count(s, c) + 1

\* s.replace(old, new, 1)
ReplaceFirst(s, old, new) ==
    [k \in DOMAIN s |-> IF k = Find(s, old) THEN new ELSE s[k]]

\* str.lower() on the letters that occur in the names below
LowerChar(c) ==
    CASE c = "T" -> "t" [] c = "E" -> "e" [] c = "X" -> "x" [] c = "D" -> "d"
      [] OTHER -> c

Lower(s) == [k \in DOMAIN s |-> LowerChar(s[k])]

\* os.path.basename
basename(path) == LastPart(path, "/")

\* filename.split(".")[-1].lower()
ext_of(filename) == Lower(LastPart(filename, "."))

\* the latin-1 code of the characters that occur in embedded names
ord(c) ==
    CASE c = "." -> 46 [] c = "-" -> 45 [] c = "0" -> 48 [] c = "1" -> 49
      [] c = "2" -> 50 [] c = "3" -> 51 [] c = "6" -> 54 [] c = "7" -> 55
      [] c = "e" -> 101 [] c = "f" -> 102 [] c = "g" -> 103 [] c = "i" -> 105
      [] c = "n" -> 110 [] c = "p" -> 112 [] c = "t" -> 116 [] c = "v" -> 118
      [] c = "x" -> 120

Alphabet ==
    {".", "-", "0", "1", "2", "3", "6", "7", "e", "f", "g", "i", "n", "p",
     "t", "v", "x"}

\* fname_bytes.decode('latin-1')
decode(bytes) ==
    [k \in DOMAIN bytes |-> CHOOSE c \in Alphabet : ord(c) = bytes[k]]

encode(s) == [k \in DOMAIN s |-> ord(s[k])]

\* ----------------------------------------------------------------- inputs
tex == <<"t", "e", "x">>
bib == <<"b", "i", "b">>

\* settings["keep_extensions"]: the default and two smaller sets
KeepSets == {{tex, bib}, {tex}, {}}

\* the members an archive is made of: name, size in bytes, regular file or not
a_tex == [name |-> <<"a", ".", "t", "e", "x">>, size |-> 2, isfile |-> TRUE]
b_bib == [name |-> <<"b", ".", "b", "i", "b">>, size |-> 1, isfile |-> TRUE]
c_png == [name |-> <<"c", ".", "p", "n", "g">>, size |-> 3, isfile |-> TRUE]
D_TEX == [name |-> <<"s", "/", "D", ".", "T", "E", "X">>, size |-> 1,
          isfile |-> TRUE]
tex_nodot == [name |-> tex, size |-> 1, isfile |-> TRUE]
dir_tex == [name |-> <<"d", ".", "t", "e", "x">>, size |-> 0, isfile |-> FALSE]

MemberPool == <<a_tex, b_bib, c_png, D_TEX, tex_nodot, dir_tex>>

\* the members of the pool at the positions S, in pool order
Pick(S) == SelectSeq(MemberPool, LAMBDA m :
               \E k \in S : MemberPool[k] = m)

\* tar.gz archives of at most MaxMembers members with distinct names
Archives ==
    {[kind |-> "tar", members |-> Pick(S), fname |-> <<>>, content |-> <<>>,
      pdf |-> FALSE] :
        S \in {T \in SUBSET DOMAIN MemberPool : Cardinality(T) <= MaxMembers}}

name_1706 ==
    <<"1", "7", "0", "6", ".", "0", "3", "7", "6", "2", "v", "7", ".",
      "t", "e", "x">>
fig_png == <<"f", "i", "g", ".", "p", "n", "g">>

\* a gzip stream as bytes: magic, method, flags, mtime, xfl, os, then the
\* NUL-terminated name when the FNAME flag is set, then the deflate data
GzipBytes(fname, data) ==
    IF fname = <<>>
    THEN <<31, 139, 8, 0, 0, 0, 0, 0, 0, 3>> \o data
    ELSE <<31, 139, 8, 8, 0, 0, 0, 0, 0, 3>> \o encode(fname) \o <<0>> \o data

\* what a single gzip stream can decompress to: TeX text, nothing, a
\* truncated or whole gzip stream
Contents ==
    {<<92, 100, 111, 99>>, <<>>, <<31, 139>>,
     GzipBytes(<<>>, <<75, 0>>), GzipBytes(name_1706, <<75, 0>>),
     GzipBytes(fig_png, <<75, 0>>)}

\* a single gzip stream: the name embedded in its header, if any, and the
\* bytes it decompresses to
GzipStream(n, c) ==
    [kind |-> "gzip", members |-> <<>>, fname |-> n, content |-> c,
     pdf |-> FALSE]

\* TeX text under every embedded name, every content without a name
GzipStreams ==
    {GzipStream(n, <<92, 100, 111, 99>>) : n \in {<<>>, name_1706, fig_png}}
        \cup {GzipStream(<<>>, c) : c \in Contents}

\* a body that is neither: a PDF (Content-Type application/pdf) or other
OtherBodies ==
    {[kind |-> "other", members |-> <<>>, fname |-> <<>>, content |-> <<>>,
      pdf |-> p] : p \in BOOLEAN}

Blobs == Archives \cup GzipStreams \cup OtherBodies

\* what the call receives: nothing when it fails before the response
Served(flt) == IF flt \in {"makedirs", "request"} THEN {NoBlob} ELSE Blobs

\* the step of a call at which the environment fails
Faults ==
    {"none", "makedirs", "request", "temp_write", "extract_write", "remove"}

\* ------------------------------------------- download_and_extract_tex_bib
RECURSIVE SumSizes(_)
SumSizes(ms) == IF ms = <<>> THEN 0 ELSE Head(ms).size + SumSizes(Tail(ms))

\* "return False, 0, 0"
Failure ==
    [raised |-> FALSE, success |-> FALSE, size_before |-> 0, size_after |-> 0]

\* an exception leaves the function
Raised ==
    [raised |-> TRUE, success |-> FALSE, size_before |-> 0, size_after |-> 0]

\* f"{safe_id}v{version}.tmp"
temp_name(arxiv_id, version) ==
    format_arxiv_id(arxiv_id) \o <<"v", Digit(version), ".", "t", "m", "p">>

\* os.remove(temp_path) followed by the return of r; when the removal
\* fails the exception reaches the outer handler, whose own os.remove
\* raises out of the function
RemoveTemp(tmp, flt, files, r) ==
    IF flt = "remove"
    THEN [result |-> Raised, save_dir |-> files \cup {tmp}]
    ELSE [result |-> r, save_dir |-> files]

\* the outer handler without its "except Exception"
OuterExceptReraises(tmp, temp_exists, flt, files) ==
    [result |-> Raised,
     save_dir |-> IF temp_exists THEN files \cup {tmp} ELSE files]

\* except Exception: remove the temp file if it exists; return False, 0, 0
OuterExcept(tmp, temp_exists, flt, files) ==
    IF temp_exists
    THEN RemoveTemp(tmp, flt, files, Failure)
    ELSE [result |-> Failure, save_dir |-> files]

\* the first loop with "size_before = member.size" for "+="
size_before_last(members) ==
    LET files == SelectSeq(members, LAMBDA m : m.isfile)
    IN  IF files = <<>> THEN 0 ELSE files[Len(files)].size

\* the first loop over tar.getmembers(): the sizes of the regular files
size_before_of(members) == SumSizes(SelectSeq(members, LAMBDA m : m.isfile))

\* the members the second loop extracts
kept_members(members, keep_exts) ==
    SelectSeq(members, LAMBDA m :
        m.isfile /\ ext_of(basename(m.name)) \in keep_exts)

\* the tar.gz branch
ExtractTar(tmp, members, keep_exts, flt) ==
    LET kept == kept_members(members, keep_exts)
    IN  IF kept # <<>> /\ flt = "extract_write"
        THEN OuterExcept(tmp, TRUE, flt, {})
        ELSE RemoveTemp(tmp, flt, {m.name : m \in Range(kept)},
                 [raised |-> FALSE, success |-> TRUE,
                  size_before |-> size_before_of(members),
                  size_after |-> SumSizes(kept)])

\* the name read from the header bytes: from the eleventh byte up to the
\* first NUL byte or the end
header_name(content) ==
    LET rest == SubSeq(content, 11, Len(content))
    IN  decode(FirstPart(rest, 0))

\* "Normalize filename"
normalize_filename(filename_base) ==
    IF /\ Count(filename_base, ".") > 0
       /\ SplitLen(FirstPart(filename_base, "."), "-") = 1
       /\ Count(FirstPart(filename_base, "."), ".") > 0
    THEN ReplaceFirst(filename_base, ".", "-")
    ELSE filename_base

\* the inner handler returning without its os.remove
InnerExceptKeepsTemp(tmp, flt) == [result |-> Failure, save_dir |-> {tmp}]

\* "except Exception as e2": PDF or unknown format; the temp file is removed
InnerExcept(tmp, flt) == RemoveTemp(tmp, flt, {}, Failure)

\* the single gzip branch, on the bytes gzip.open(...).read() returns
ExtractGzip(tmp, arxiv_id, version, content, keep_exts, flt) ==
    IF Len(content) < 2 \/ SubSeq(content, 1, 2) # <<31, 139>>
    THEN InnerExcept(tmp, flt)
    ELSE IF Len(content) < 4
    THEN InnerExcept(tmp, flt)
    ELSE
    LET flags == content[4]
        embedded == IF (flags \div 8) % 2 = 1
                    THEN header_name(content) ELSE <<>>
        filename == IF embedded = <<>>
                    THEN arxiv_id \o <<"v", Digit(version), ".">> \o tex
                    ELSE embedded
        filename_base == normalize_filename(basename(filename))
    IN  IF ext_of(filename_base) \in keep_exts
        THEN IF flt = "extract_write"
             THEN InnerExcept(tmp, flt)
             ELSE RemoveTemp(tmp, flt, {filename_base},
                      [raised |-> FALSE, success |-> TRUE,
                       size_before |-> Len(content),
                       size_after |-> Len(content)])
        ELSE RemoveTemp(tmp, flt, {}, Failure)

\* download_and_extract_tex_bib(arxiv_id, version, keep_exts=keep_exts) when
\* arxiv.org serves b and the environment fails at step flt
download_and_extract_tex_bib(arxiv_id, version, keep_exts, b, flt) ==
    LET tmp == temp_name(arxiv_id, version)
    IN  CASE flt = "makedirs" -> [result |-> Raised, save_dir |-> {}]
          [] flt = "request" -> OuterExcept(tmp, FALSE, flt, {})
          [] flt = "temp_write" -> OuterExcept(tmp, TRUE, flt, {})
          [] OTHER ->
               CASE b.kind = "tar" ->
                      ExtractTar(tmp, b.members, keep_exts, flt)
                 [] b.kind = "gzip" ->
                      ExtractGzip(tmp, arxiv_id, version, b.content,
                                  keep_exts, flt)
                 [] OTHER -> InnerExcept(tmp, flt)

\* ----------------------------------------------------------- download_paper
\* the paper whose versions are downloaded
the_arxiv_id == arxiv_id_of(Start)

\* download_paper after the discovery of latest_v versions, before the loop
InitNorm ==
    /\ FirstRun(DefaultProgress(End))
    /\ keep_extensions \in KeepSets
    /\ latest_v \in 1..MaxVersions
    /\ v = 1
    /\ blob = NoBlob
    /\ fault = "none"
    /\ result = NoResult
    /\ save_dir = {}
    /\ total_size_before = 0
    /\ total_size_after = 0
    /\ NoPipeline
    /\ NoMetrics

\* one iteration of "for v in range(1, latest_v + 1)": the call, and the
\* totals accumulated when it succeeded; an exception ends the loop
DownloadVersion ==
    /\ v <= latest_v
    /\ ~result.raised
    /\ \E flt \in Faults : \E b \in Served(flt) :
        \E r \in {download_and_extract_tex_bib(the_arxiv_id, v,
                                                keep_extensions, b, flt)} :
            /\ blob' = b
            /\ fault' = flt
            /\ result' = r.result
            /\ save_dir' = r.save_dir
            /\ total_size_before' =
                 IF r.result.success
                 THEN total_size_before + r.result.size_before
                 ELSE total_size_before
            /\ total_size_after' =
                 IF r.result.success
                 THEN total_size_after + r.result.size_after
                 ELSE total_size_after
            /\ v' = IF r.result.raised THEN v ELSE v + 1
    /\ UNCHANGED <<keep_extensions, latest_v>>
    /\ UNCHANGED <<main_vars, pipe_vars, metric_vars>>

NextNorm == DownloadVersion

\* the version loop of download_paper over every blob and every fault
SpecNorm == InitNorm /\ [][NextNorm]_vars

\* ------------------------------------------------ get_semantic_scholar_data
max_attempt == 10

\* references of a response body: the arXiv id under externalIds (<<>> when
\* there is none) and the title
ref_arxiv ==
    [ArXiv |-> <<"1", "7", "0", "6", ".", "1">>, title |-> <<" ", "T">>]
ref_arxiv_2 ==
    [ArXiv |-> <<"1", "7", "0", "6", ".", "3">>, title |-> <<"S", " ">>]
ref_other == [ArXiv |-> <<>>, title |-> <<"U">>]
ref_null_title ==
    [ArXiv |-> <<"1", "7", "0", "6", ".", "2">>, title |-> null]

\* response bodies: the venue names (<<>> when absent) and the references
Body(pv, venue, journal, references) ==
    [publicationVenue |-> pv, venue |-> venue, journal |-> journal,
     references |-> references]

body_venue == Body(<<"V">>, <<>>, <<>>, <<ref_arxiv, ref_other>>)
body_journal == Body(<<>>, <<>>, <<"J">>, <<>>)
body_null_title == Body(<<"V">>, <<>>, <<>>, <<ref_arxiv, ref_null_title>>)

Bodies ==
    {body_venue, body_journal, body_null_title,
     Body(<<>>, <<"W">>, <<>>, <<ref_arxiv, ref_arxiv_2>>),
     Body(<<"V">>, <<"W">>, <<>>, <<ref_other>>),
     Body(<<>>, <<>>, <<>>, <<ref_other, ref_arxiv_2>>),
     Body(<<>>, <<"W">>, <<"J">>, <<ref_null_title, ref_arxiv_2>>)}

NoBody == Body(<<>>, <<>>, <<>>, <<>>)

\* what one requests.get can end in: a 429, another status that
\* raise_for_status rejects, a transport error or the timeout, or a 200
\* with a body
Responses ==
    {[kind |-> k, data |-> NoBody] :
        k \in {"429", "error_status", "transport_error"}}
      \cup {[kind |-> "ok", data |-> b] : b \in Bodies}

\* str.strip() for blanks
RECURSIVE strip(_)
strip(s) ==
    IF s = <<>> THEN s
    ELSE IF Head(s) = " " THEN strip(Tail(s))
    ELSE IF s[Len(s)] = " " THEN strip(SubSeq(s, 1, Len(s) - 1))
    ELSE s

\* d[k] = val on a dict
Put(d, k, val) == [x \in DOMAIN d \cup {k} |-> IF x = k THEN val ELSE d[x]]

\* the venue after a response: publicationVenue.name, else what
\* publication_venue holds already, else venue, else journal.name
extract_venue(publication_venue, data) ==
    LET a == IF data.publicationVenue # <<>>
             THEN data.publicationVenue ELSE publication_venue
        b == IF a = <<>> THEN data.venue ELSE a
    IN  IF b = <<>> THEN data.journal ELSE b

\* "for ref in data.get('references', [])": refs after the loop, and whether
\* the loop was left by the AttributeError of None.strip()
RECURSIVE extract_references(_, _)
extract_references(refs, rs) ==
    IF rs = <<>> THEN [refs |-> refs, raised |-> FALSE]
    ELSE IF Head(rs).ArXiv = <<>> THEN extract_references(refs, Tail(rs))
    ELSE IF Head(rs).title = null THEN [refs |-> refs, raised |-> TRUE]
    ELSE extract_references(
             Put(refs, format_arxiv_id(Head(rs).ArXiv),
                 strip(Head(rs).title)),
             Tail(rs))

\* no call of get_semantic_scholar_data
NoCall ==
    [pc |-> "none", attempt |-> 0, publication_venue |-> <<>>,
     refs |-> <<>>, requests |-> 0, only_429 |-> TRUE]

\* the call before its first iteration; requests counts the requests.get
\* calls made, only_429 tells whether every answer so far was a 429
NewCall == [NoCall EXCEPT !.pc = "loop"]

\* the loop is left: "return publication_venue, refs"
return_after_loop(c) == [c EXCEPT !.pc = "exhausted"]

\* the next iteration of a loop that has no last attempt
next_attempt_unbounded(c) == [c EXCEPT !.attempt = @ + 1]

\* the next iteration of "for attempt in range(max_attempt)"
next_attempt(c) ==
    IF c.attempt + 1 < max_attempt
    THEN [c EXCEPT !.attempt = @ + 1]
    ELSE return_after_loop(c)

\* a 429 that ends the call at once
on_rate_limit_break(c) == return_after_loop(c)

\* "if r.status_code == 429: continue"
on_rate_limit(c) == next_attempt(c)

\* "except Exception": break on the last attempt, else go on
on_exception(c) ==
    IF c.attempt = max_attempt - 1
    THEN return_after_loop(c)
    ELSE next_attempt(c)

\* one iteration of the retry loop of get_semantic_scholar_data
attempt_request(c, resp) ==
    LET sent == [c EXCEPT !.requests = @ + 1,
                          !.only_429 = @ /\ resp.kind = "429"]
    IN  CASE resp.kind = "429" -> on_rate_limit(sent)
          [] resp.kind \in {"error_status", "transport_error"} ->
               on_exception(sent)
          [] OTHER ->
               LET ex == extract_references(sent.refs, resp.data.references)
                   parsed ==
                       [sent EXCEPT
                          !.publication_venue =
                              extract_venue(@, resp.data),
                          !.refs = ex.refs]
               IN  IF ex.raised
                   THEN on_exception(parsed)
                   ELSE [parsed EXCEPT !.pc = "success"]

\* ------------------------------------------------ download_paper, per worker
\* the items two pool threads are running at the same time
Pipelines == {Start, Start + 1}

\* the metrics dict download_paper starts from
NewMetrics ==
    [size_before |-> 0, size_after |-> 0, num_references |-> 0,
     num_versions |-> 0, reference_fetch_success |-> FALSE]

\* download_paper entered, before "with arxiv_download_lock"; fetches
\* counts the calls of download_and_extract_tex_bib, ref_calls those of
\* build_metadata_and_refs
NewPipeline ==
    [pc |-> "start", latest_v |-> 0, v |-> 1, total_size_before |-> 0,
     total_size_after |-> 0, fetches |-> 0, ref_calls |-> 0,
     call |-> NoCall, metrics |-> NewMetrics, success |-> FALSE]

\* what arxiv.org serves for a version and the step at which the
\* environment fails: an archive with one kept file, a body that is no
\* archive, a failed transfer or its timeout, a version directory that
\* cannot be created
VersionCalls ==
    {<<[kind |-> "tar", members |-> <<a_tex, c_png>>, fname |-> <<>>,
        content |-> <<>>, pdf |-> FALSE], "none">>,
     <<[kind |-> "other", members |-> <<>>, fname |-> <<>>,
        content |-> <<>>, pdf |-> FALSE], "none">>,
     <<NoBlob, "request">>,
     <<NoBlob, "makedirs">>}

\* the answers of the API while a pipeline is followed: a 429, a transport
\* error or the timeout, a body with references, one without, and one
\* whose second reference has no title
PipelineResponses ==
    {r \in Responses :
        \/ r.kind \in {"429", "transport_error"}
        \/ r.kind = "ok"
             /\ r.data \in {body_venue, body_journal, body_null_title}}

\* get_arxiv_metadata(arxiv_id): it raises (the timeout of its request
\* included) or returns the metadata with the number of versions found
get_arxiv_metadata ==
    {[raised |-> TRUE, latest_version |-> 0]}
      \cup {[raised |-> FALSE, latest_version |-> n] : n \in 0..MaxVersions}

\* build_metadata_and_refs once its single call of the API client has
\* returned c: the references the client returned, the number of references
\* the upstream answer listed (0 when no attempt completed), merged into
\* the metadata record and persisted; a failed write raises
build_metadata_and_refs(c, resp, persisted) ==
    [raised |-> ~persisted,
     references |-> c.refs,
     all_references_count |->
         IF c.pc = "success" THEN Len(resp.data.references) ELSE 0]

\* the variables of the orchestrator a download_paper call leaves alone
run_vars == <<disk, startup, papers_to_process, future, success, yielded,
              mainpc, config_lock, report, paper_records>>

\* discovery entered without the lock being waited for
EnterDiscoveryUnlocked(i) ==
    /\ pipe[i].pc = "start"
    /\ arxiv_download_lock' = i
    /\ pipe' = [pipe EXCEPT ![i].pc = "discovery"]
    /\ UNCHANGED <<progress, run_vars, norm_vars, metric_vars>>

\* "with arxiv_download_lock": the lock is taken
AcquireDownloadLock(i) ==
    /\ pipe[i].pc = "start"
    /\ arxiv_download_lock = Free
    /\ arxiv_download_lock' = i
    /\ pipe' = [pipe EXCEPT ![i].pc = "discovery"]
    /\ UNCHANGED <<progress, run_vars, norm_vars, metric_vars>>

\* the except branch of download_paper: the item is recorded as failed and
\* (False, metrics) returned
ExceptBranch(i, p) ==
    /\ pipe' = [pipe EXCEPT ![i] = [p EXCEPT !.pc = "Failed",
                                             !.success = FALSE]]
    /\ progress' = [progress EXCEPT
                      !.failed_papers = AppendIfAbsent(@, safe_id_of(i))]

\* the version loop is over: the totals go to metrics and
\* build_metadata_and_refs is entered
after_loop(p) ==
    [p EXCEPT !.pc = "references",
              !.metrics.size_before = p.total_size_before,
              !.metrics.size_after = p.total_size_after,
              !.ref_calls = @ + 1,
              !.call = NewCall]

\* the loop from version 1 on, or no iteration when range() is empty
enter_loop(p) == IF p.v <= p.latest_v THEN p ELSE after_loop(p)

\* a discovery of zero versions that goes on
not_found_passes(m) == FALSE

\* "if latest_v == 0: raise ValueError"
not_found(m) == m.latest_version = 0

\* get_arxiv_metadata and the sleep under the lock, the lock released, then
\* the check of latest_version
VersionDiscovery(i) ==
    /\ pipe[i].pc = "discovery"
    /\ arxiv_download_lock' = Free
    /\ \E m \in get_arxiv_metadata :
         IF m.raised \/ not_found(m)
         THEN ExceptBranch(i, pipe[i])
         ELSE /\ pipe' = [pipe EXCEPT ![i] =
                        enter_loop([@ EXCEPT
                            !.pc = "versions",
                            !.latest_v = m.latest_version,
                            !.metrics.num_versions = m.latest_version])]
              /\ UNCHANGED progress
    /\ UNCHANGED <<run_vars, norm_vars, metric_vars>>

\* "for v in range(1, latest_v + 1)": the loop ends after the last version
loop_ends(p) == p.v = p.latest_v

\* one iteration of the version loop: the call, the totals, and after the
\* last version the totals stored in metrics and build_metadata_and_refs
\* entered; an exception of the call goes to the except branch
PerVersionFetch(i) ==
    /\ pipe[i].pc = "versions"
    /\ \E call \in VersionCalls :
        \E r \in {download_and_extract_tex_bib(arxiv_id_of(i), pipe[i].v,
                      {tex, bib}, call[1], call[2]).result} :
            LET p == pipe[i]
                q == [p EXCEPT
                        !.fetches = @ + 1,
                        !.total_size_before =
                            IF r.success THEN @ + r.size_before ELSE @,
                        !.total_size_after =
                            IF r.success THEN @ + r.size_after ELSE @]
            IN  IF r.raised
                THEN ExceptBranch(i, q)
                ELSE /\ pipe' = [pipe EXCEPT ![i] =
                           IF loop_ends(p)
                           THEN after_loop(q)
                           ELSE [q EXCEPT !.v = @ + 1]]
                     /\ UNCHANGED progress
    /\ UNCHANGED <<arxiv_download_lock, run_vars, norm_vars, metric_vars>>

\* the call has returned: how it ended is all that is left of it
returned(c) == [NoCall EXCEPT !.pc = c.pc]

\* one attempt of the API client inside build_metadata_and_refs; when the
\* client returns, the rest of download_paper: the reference metrics, the
\* item recorded as completed, (True, metrics) returned
ReferenceFetch(i) ==
    /\ pipe[i].pc = "references"
    /\ \E resp \in PipelineResponses :
        \E c \in {attempt_request(pipe[i].call, resp)} :
          IF c.pc = "loop"
          THEN /\ pipe' = [pipe EXCEPT ![i].call = c]
               /\ UNCHANGED progress
          ELSE \E persisted \in BOOLEAN :
            LET p == [pipe[i] EXCEPT !.call = returned(c)]
                metadata == build_metadata_and_refs(c, resp, persisted)
            IN  IF metadata.raised
                THEN ExceptBranch(i, p)
                ELSE /\ pipe' = [pipe EXCEPT ![i] =
                           [p EXCEPT
                              !.metrics.num_references =
                                  Cardinality(DOMAIN metadata.references),
                              !.metrics.reference_fetch_success =
                                  metadata.all_references_count > 0,
                              !.pc = "Done",
                              !.success = TRUE]]
                     /\ progress' = [progress EXCEPT
                          !.completed_papers =
                              AppendIfAbsent(@, safe_id_of(i))]
    /\ UNCHANGED <<arxiv_download_lock, run_vars, norm_vars, metric_vars>>

\* get_semantic_scholar_data called on its own
InitClient ==
    /\ FirstRun(DefaultProgress(End))
    /\ NoDownload
    /\ pipe = [i \in {Start} |-> [call |-> NewCall]]
    /\ arxiv_download_lock = Free
    /\ NoMetrics

\* one iteration of the retry loop; the call is followed until it returns
\* publication_venue and refs
AttemptRequest ==
    /\ pipe[Start].call.pc = "loop"
    /\ \E resp \in Responses :
         pipe' = [pipe EXCEPT ![Start].call = attempt_request(@, resp)]
    /\ UNCHANGED <<arxiv_download_lock, main_vars, norm_vars, metric_vars>>

NextClient == AttemptRequest

\* one call of get_semantic_scholar_data over every sequence of answers
SpecClient == InitClient /\ [][NextClient]_vars

\* two workers have entered download_paper, each for its item
InitPipe ==
    /\ FirstRun(DefaultProgress(End))
    /\ NoDownload
    /\ pipe = [i \in Pipelines |-> NewPipeline]
    /\ arxiv_download_lock = Free
    /\ NoMetrics

\* a step of the worker that runs item i
PipelineStep(i) ==
    \/ AcquireDownloadLock(i)
    \/ VersionDiscovery(i)
    \/ PerVersionFetch(i)
    \/ ReferenceFetch(i)

NextPipe == \E i \in Pipelines : PipelineStep(i)

\* two concurrent download_paper calls
SpecPipe == InitPipe /\ [][NextPipe]_vars

\* the same when the pool keeps running: some thread that can take a step
\* is scheduled, and every call it waits for returns or times out
FairPipe == SpecPipe /\ WF_vars(NextPipe)

\* --------------------------------------------------------- MetricsCollector
MaxSamples == 2      \* samples a collector takes
MaxStarts == 2       \* start_monitoring calls that start a thread

\* the file after open(path, 'w'), and whenever a write did not complete
Truncated == [NoFile EXCEPT !.state = "truncated"]

\* the checkpoint file a previous process has left: none, a complete one,
\* one whose write did not complete
PriorCheckpoints ==
    {NoFile,
     Truncated,
     [state |-> "valid", samples |-> <<[ram_mb |-> 2, disk_mb |-> 1]>>,
      peak_ram_mb |-> 2, peak_disk_mb |-> 1, start_time |-> "prior_run"]}

\* the data dict of save_checkpoint: the peaks and start_time by value,
\* 'samples' being the list itself
checkpoint_data(c) ==
    [NoFile EXCEPT !.peak_ram_mb = c.peak_ram_mb,
                   !.peak_disk_mb = c.peak_disk_mb,
                   !.start_time = c.start_time]

\* what the file can hold when thread t leaves its "with open(...)": what
\* json.dump(data, f) writes or, when another thread has the file open as
\* well, no well-formed record
Dumps(t, data) ==
    {[data EXCEPT !.state = "valid", !.samples = collector.samples]}
        \cup (IF writers # {t} THEN {Truncated} ELSE {})

\* a process starts on the files of the previous one; the disk works; the
\* monitor threads are numbered in the order start_monitoring creates them
InitMonitor ==
    /\ FirstRun(DefaultProgress(End))
    /\ NoDownload
    /\ NoPipeline
    /\ collector = NewCollector
    /\ monitor = [k \in 1..MaxStarts |->
                   [pc |-> "unborn", data |-> NoFile,
                    sample |-> [ram_mb |-> 0, disk_mb |-> 0]]]
    /\ caller = NewCaller
    /\ checkpoint \in PriorCheckpoints
    /\ writers = {}
    /\ paper_metrics = NewPaperMetrics
    /\ statistics = NoStatistics

\* load_checkpoint, called before anything else, on a complete file (it
\* returns False and changes nothing on any other)
LoadCheckpoint ==
    /\ caller.pc = "idle"
    /\ collector = NewCollector
    /\ checkpoint.state = "valid"
    /\ collector' = [collector EXCEPT
                       !.samples = checkpoint.samples,
                       !.peak_ram_mb = checkpoint.peak_ram_mb,
                       !.peak_disk_mb = checkpoint.peak_disk_mb,
                       !.start_time = checkpoint.start_time]
    /\ caller' = [caller EXCEPT !.loaded = checkpoint]
    /\ UNCHANGED <<monitor, checkpoint, writers>>
    /\ UNCHANGED <<main_vars, norm_vars, pipe_vars>>
    /\ UNCHANGED <<paper_metrics, statistics>>

\* start_monitoring when no monitoring is going on: the flag, the start
\* time unless one is there, a new thread
StartMonitoring ==
    /\ caller.pc = "idle"
    /\ ~collector.monitoring
    /\ collector.monitor_thread < MaxStarts
    /\ collector' = [collector EXCEPT
                       !.monitoring = TRUE,
                       !.start_time = IF @ = null THEN "this_run" ELSE @,
                       !.monitor_thread = @ + 1]
    /\ monitor' = [monitor EXCEPT
                     ![collector.monitor_thread + 1].pc = "while"]
    /\ UNCHANGED <<caller, checkpoint, writers>>
    /\ UNCHANGED <<main_vars, norm_vars, pipe_vars>>
    /\ UNCHANGED <<paper_metrics, statistics>>

\* stop_monitoring up to its join
StopMonitoring ==
    /\ caller.pc = "idle"
    /\ collector.monitoring
    /\ collector' = [collector EXCEPT !.monitoring = FALSE]
    /\ caller' = [caller EXCEPT !.pc = "join"]
    /\ UNCHANGED <<monitor, checkpoint, writers>>
    /\ UNCHANGED <<main_vars, norm_vars, pipe_vars>>
    /\ UNCHANGED <<paper_metrics, statistics>>

\* monitor_thread.join(timeout=2.0) returns: the thread has ended, or the
\* two seconds are over and it is still alive
Join ==
    /\ caller.pc = "join"
    /\ caller' = [caller EXCEPT !.pc = "save"]
    /\ UNCHANGED <<collector, monitor, checkpoint, writers>>
    /\ UNCHANGED <<main_vars, norm_vars, pipe_vars>>
    /\ UNCHANGED <<paper_metrics, statistics>>

\* save_checkpoint of stop_monitoring: the data dict and open(path, 'w')
CallerOpen ==
    /\ caller.pc = "save"
    /\ caller' = [caller EXCEPT
                    !.pc = "dump",
                    !.data = checkpoint_data(collector)]
    /\ checkpoint' = Truncated
    /\ writers' = writers \cup {0}
    /\ UNCHANGED <<collector, monitor>>
    /\ UNCHANGED <<main_vars, norm_vars, pipe_vars>>
    /\ UNCHANGED <<paper_metrics, statistics>>

\* json.dump and the close of the file; stop_monitoring returns
CallerDump ==
    /\ caller.pc = "dump"
    /\ checkpoint' \in Dumps(0, caller.data)
    /\ writers' = writers \ {0}
    /\ caller' = [caller EXCEPT !.pc = "idle", !.data = NoFile]
    /\ UNCHANGED <<collector, monitor>>
    /\ UNCHANGED <<main_vars, norm_vars, pipe_vars>>
    /\ UNCHANGED <<paper_metrics, statistics>>

\* "while self.monitoring" is false: the thread ends
MonitorExit(k) ==
    /\ monitor[k].pc = "while"
    /\ ~collector.monitoring
    /\ monitor' = [monitor EXCEPT ![k].pc = "dead"]
    /\ UNCHANGED <<collector, caller, checkpoint, writers>>
    /\ UNCHANGED <<main_vars, norm_vars, pipe_vars>>
    /\ UNCHANGED <<paper_metrics, statistics>>

\* the measurements ram_mb and disk_mb, and "self.samples.append"
MonitorSample(k) ==
    /\ monitor[k].pc = "while"
    /\ collector.monitoring
    /\ Len(collector.samples) < MaxSamples
    /\ \E m \in {[ram_mb |-> r, disk_mb |-> 1] : r \in {1, 2}} :
         /\ collector' = [collector EXCEPT !.samples = Append(@, m)]
         /\ monitor' = [monitor EXCEPT ![k].pc = "peaks", ![k].sample = m]
    /\ UNCHANGED <<caller, checkpoint, writers>>
    /\ UNCHANGED <<main_vars, norm_vars, pipe_vars>>
    /\ UNCHANGED <<paper_metrics, statistics>>

\* "Update peaks" with the locals ram_mb and disk_mb of this thread
MonitorPeaks(k) ==
    /\ monitor[k].pc = "peaks"
    /\ collector' = [collector EXCEPT
                       !.peak_ram_mb = Max(@, monitor[k].sample.ram_mb),
                       !.peak_disk_mb = Max(@, monitor[k].sample.disk_mb)]
    /\ monitor' = [monitor EXCEPT ![k].pc = "save"]
    /\ UNCHANGED <<caller, checkpoint, writers>>
    /\ UNCHANGED <<main_vars, norm_vars, pipe_vars>>
    /\ UNCHANGED <<paper_metrics, statistics>>

\* save_checkpoint in the monitor thread: the data dict and open(path, 'w')
MonitorOpen(k) ==
    /\ monitor[k].pc = "save"
    /\ monitor' = [monitor EXCEPT
                     ![k].pc = "dump",
                     ![k].data = checkpoint_data(collector)]
    /\ checkpoint' = Truncated
    /\ writers' = writers \cup {k}
    /\ UNCHANGED <<collector, caller>>
    /\ UNCHANGED <<main_vars, norm_vars, pipe_vars>>
    /\ UNCHANGED <<paper_metrics, statistics>>

\* json.dump and the close of the file, then the sleep
MonitorDump(k) ==
    /\ monitor[k].pc = "dump"
    /\ checkpoint' \in Dumps(k, monitor[k].data)
    /\ writers' = writers \ {k}
    /\ monitor' = [monitor EXCEPT ![k].pc = "while", ![k].data = NoFile]
    /\ UNCHANGED <<collector, caller>>
    /\ UNCHANGED <<main_vars, norm_vars, pipe_vars>>
    /\ UNCHANGED <<paper_metrics, statistics>>

NextMonitor ==
    \/ LoadCheckpoint
    \/ StartMonitoring
    \/ StopMonitoring
    \/ Join
    \/ CallerOpen
    \/ CallerDump
    \/ \E k \in 1..MaxStarts :
          \/ MonitorExit(k)
          \/ MonitorSample(k)
          \/ MonitorPeaks(k)
          \/ MonitorOpen(k)
          \/ MonitorDump(k)

\* a MetricsCollector, its monitor threads and its checkpoint file
SpecMonitor == InitMonitor /\ [][NextMonitor]_vars

\* ------------------------------------------------------------- PaperMetrics
MaxPapers == 2       \* add_paper calls

\* load_checkpoint on a new PaperMetrics, the file being a complete one
\* that a previous process has left
LoadPaperCheckpoint ==
    /\ paper_metrics = NewPaperMetrics
    /\ \E data \in {[papers |-> r, start_time |-> "prior_run"] :
                        r \in {<<TRUE>>, <<TRUE, FALSE>>}} :
         paper_metrics' = [paper_metrics EXCEPT
                             !.papers = data.papers,
                             !.start_time = data.start_time,
                             !.loaded = data]
    /\ UNCHANGED statistics
    /\ UNCHANGED <<main_vars, norm_vars, pipe_vars>>
    /\ UNCHANGED <<collector, monitor, caller, checkpoint, writers>>

\* start_timing
StartTiming ==
    /\ paper_metrics' = [paper_metrics EXCEPT !.start_time = "this_run"]
    /\ UNCHANGED statistics
    /\ UNCHANGED <<main_vars, norm_vars, pipe_vars>>
    /\ UNCHANGED <<collector, monitor, caller, checkpoint, writers>>

\* add_paper: the append under _lock
AddPaper ==
    /\ paper_metrics.completed < MaxPapers
    /\ \E ok \in BOOLEAN :
         paper_metrics' = [paper_metrics EXCEPT
                             !.papers = Append(@, ok),
                             !.completed = @ + 1]
    /\ UNCHANGED statistics
    /\ UNCHANGED <<main_vars, norm_vars, pipe_vars>>
    /\ UNCHANGED <<collector, monitor, caller, checkpoint, writers>>

\* a get_statistics call, the block under _lock: the empty result, or the
\* lists successful and failed
GetStatisticsLocked ==
    /\ statistics.pc # "unlocked"
    /\ statistics' =
           IF paper_metrics.papers = <<>>
           THEN [NoStatistics EXCEPT !.pc = "returned_empty"]
           ELSE [NoStatistics EXCEPT
                    !.pc = "unlocked",
                    !.successful =
                        Len(SelectSeq(paper_metrics.papers, LAMBDA p : p)),
                    !.failed =
                        Len(SelectSeq(paper_metrics.papers, LAMBDA p : ~p))]
    /\ UNCHANGED paper_metrics
    /\ UNCHANGED <<main_vars, norm_vars, pipe_vars>>
    /\ UNCHANGED <<collector, monitor, caller, checkpoint, writers>>

\* get_statistics after the lock is released: len(self.papers), the return
GetStatisticsReturn ==
    /\ statistics.pc = "unlocked"
    /\ statistics' = [statistics EXCEPT
                        !.pc = "returned",
                        !.total_papers_attempted = Len(paper_metrics.papers),
                        !.completed = paper_metrics.completed]
    /\ UNCHANGED paper_metrics
    /\ UNCHANGED <<main_vars, norm_vars, pipe_vars>>
    /\ UNCHANGED <<collector, monitor, caller, checkpoint, writers>>

NextPapers ==
    \/ LoadPaperCheckpoint
    \/ StartTiming
    \/ AddPaper
    \/ GetStatisticsLocked
    \/ GetStatisticsReturn

\* a PaperMetrics used by the workers and by a reader of the statistics
SpecPapers == Init /\ [][NextPapers]_vars

\* ======================================================== properties
CompletedSet(p) == Range(p.completed_papers)
FailedSet(p) == Range(p.failed_papers)
ConfiguredRange(p) == p.start..p.end

\* the largest element of a non-empty set of integers
SetMax(S) == CHOOSE m \in S : \A x \in S : x <= m

\* futures the main loop has handled and that returned a result
HandledReturned == {i \in yielded : future[i] = "returned"}

\* C1: no identifier whose dash-normalized id is in the completed set the
\* run loaded at start-up is submitted to the pool
IdempotentResume ==
    \A i \in Offsets :
        safe_id_of(i) \in CompletedSet(startup) => future[i] = "none"

\* a resumed run that skips a completed identifier lying at or above the
\* cursor while a worker processes another identifier
IdempotentResumeWitness ==
    \E i, j \in Offsets :
        /\ safe_id_of(i) \in CompletedSet(startup)
        /\ i >= startup.current
        /\ future[j] \in InWorker

\* C2: every identifier of the range without a recorded outcome in the
\* ledger a run starts from is dispatched by that run
AtLeastOnceDurability ==
    \A i \in ConfiguredRange(startup) :
        safe_id_of(i) \notin CompletedSet(startup) \cup FailedSet(startup)
            => future[i] # "none"

\* C3: the work list is exactly the identifiers of the configured range
\* [start, end] that are not in the completed set
WorkListIsFilteredRange ==
    Range(papers_to_process) =
        {i \in ConfiguredRange(startup) : NotCompleted(startup, i)}

FailedCompletedDisjoint ==
    /\ CompletedSet(progress) \cap FailedSet(progress) = {}
    /\ CompletedSet(disk) \cap FailedSet(disk) = {}

NeverCompletedThenFailed ==
    [][ \A i \in Offsets :
          (safe_id_of(i) \in CompletedSet(progress) \ FailedSet(progress))
              => safe_id_of(i) \notin FailedSet(progress')
      ]_vars

\* C8: while a thread is inside save_config, holding config_lock, no thread
\* changes the completed or the failed list
NoMutationDuringSave ==
    [][ (\E i \in Offsets : future[i] = "save_config" /\ config_lock = i)
          => \/ Restart
             \/ /\ progress'.completed_papers = progress.completed_papers
                /\ progress'.failed_papers = progress.failed_papers
      ]_vars

\* C9: the step that takes a worker to its pacing sleep writes the whole
\* in-memory ledger to the file, and while the worker sleeps and after it
\* has returned the file holds its identifier in completed (on success) or
\* in failed (on failure)
PersistedBeforeSleep ==
    /\ [][ \A i \in Offsets :
              (future[i] # "sleep" /\ future'[i] = "sleep")
                  => disk' = save_config(progress') ]_vars
    /\ [](\A i \in Offsets :
            future[i] \in {"sleep", "returned"} =>
                IF success[i]
                THEN safe_id_of(i) \in CompletedSet(disk)
                ELSE safe_id_of(i) \in FailedSet(disk))

\* a successful and a failed item both in their pacing sleep
PersistedBeforeSleepWitness ==
    \E i, j \in Offsets :
        /\ future[i] = "sleep" /\ success[i]
        /\ future[j] = "sleep" /\ ~success[j]

\* C10: when a run ends normally the ledger file equals the in-memory
\* progress, cursor included
PersistedAtNormalEnd ==
    mainpc = "done" => disk = save_config(progress)

\* C11: after KeyboardInterrupt has reached the main thread, no work item
\* still waiting in the pool's queue is started by a pool thread
NoStartAfterInterrupt ==
    [][(mainpc = "shutdown" /\ mainpc' = "shutdown") =>
          \A i \in Offsets : future[i] = "pending" => future'[i] = "pending"]_vars

\* C12: after an interrupt the ledger is persisted only when no worker is
\* inside a work item any more, the file then holds the in-memory ledger and
\* with it the outcome of every item a worker ran, and the collectors'
\* report is produced only after that persist
InterruptPersistsAfterDrain ==
    /\ mainpc = "interrupted" =>
          /\ Running = {}
          /\ disk = save_config(progress)
          /\ \A i \in Offsets :
                future[i] \in {"returned", "raised"} =>
                    safe_id_of(i) \in CompletedSet(disk) \cup FailedSet(disk)
    /\ report.status # "none" => mainpc \in {"done", "interrupted", "raised"}
    /\ mainpc = "shutdown" => report = NoReport

\* an interrupted run whose final persist covered an item that finished
\* while the main thread waited for the pool, and that then reported
InterruptPersistsWitness ==
    /\ mainpc = "interrupted"
    /\ report.status = "summary"
    /\ \E i \in Offsets :
          /\ future[i] = "returned"
          /\ i \notin yielded
          /\ safe_id_of(i) \in CompletedSet(disk)
          /\ safe_id_of(i) \notin CompletedSet(startup)

\* C13: when the run ends normally every identifier of the work list is in
\* completed or in failed, and an identifier whose download failed or whose
\* worker raised is in failed
EveryItemSettled ==
    mainpc = "done" =>
        \A i \in Range(papers_to_process) :
            /\ safe_id_of(i) \in CompletedSet(progress) \cup FailedSet(progress)
            /\ (future[i] = "raised" \/ ~success[i]) =>
                  safe_id_of(i) \in FailedSet(progress)

\* a run that ended normally although one worker raised after a successful
\* download and another item was processed after it
EveryItemSettledWitness ==
    /\ mainpc = "done"
    /\ \E i, j \in Range(papers_to_process) :
          /\ future[i] = "raised"
          /\ safe_id_of(i) \in CompletedSet(progress)
          /\ future[j] = "returned"

\* C14: a run that was not interrupted ends its finally block with the
\* summary of the attempted, succeeded and failed counts
NormalEndReportsSummary ==
    (mainpc = "done" /\ report.status # "none") => report.status = "summary"

\* C15: an item whose download succeeded and whose ledger write raised is
\* not added to the failed set by the run
WriteFailureKeepsOutcome ==
    \A i \in Offsets :
        (/\ future[i] = "raised"
         /\ safe_id_of(i) \in CompletedSet(progress)
         /\ safe_id_of(i) \notin FailedSet(startup))
            => safe_id_of(i) \notin FailedSet(progress)

\* a call of download_and_extract_tex_bib has been made
called == blob.kind # "none" \/ fault # "none"

\* C16: the result of every call has size_after <= size_before, and so have
\* the totals download_paper accumulates over the versions
SizeAfterAtMostBefore ==
    /\ result.size_after <= result.size_before
    /\ total_size_after <= total_size_before

\* two versions accumulated, the last one an archive of which a part only
\* was kept
SizeAfterWitness ==
    /\ v = 3
    /\ blob.kind = "tar"
    /\ result.success
    /\ 0 < result.size_after
    /\ result.size_after < result.size_before
    /\ result.size_before < total_size_before
    /\ 0 < total_size_after
    /\ total_size_after < total_size_before

\* C17: of a multi-file archive exactly the regular-file members whose
\* extension is in keepExtensions are written (a name has an extension when
\* it holds a '.': what follows the final '.', compared lower-cased),
\* size_before is the sum of the sizes of all regular-file members and
\* size_after the sum of the sizes of the kept ones
ArchiveKeepsByExtension ==
    (blob.kind = "tar" /\ fault = "none") =>
        LET files == SelectSeq(blob.members, LAMBDA m : m.isfile)
            wanted == SelectSeq(files, LAMBDA m :
                          /\ Count(basename(m.name), ".") > 0
                          /\ Lower(LastPart(basename(m.name), "."))
                                \in keep_extensions)
        IN  /\ result.success
            /\ save_dir = {m.name : m \in Range(wanted)}
            /\ result.size_before = SumSizes(files)
            /\ result.size_after = SumSizes(wanted)

\* C18: a single compressed stream whose embedded name is 1706.03762v7.tex,
\* with keepExtensions {tex, bib}, yields one file named 1706-03762v7.tex
SingleStreamNameIsDashed ==
    (/\ blob.kind = "gzip"
     /\ blob.fname = name_1706
     /\ keep_extensions = {tex, bib}
     /\ fault = "none")
        => save_dir = {<<"1", "7", "0", "6", "-", "0", "3", "7", "6", "2",
                         "v", "7", ".", "t", "e", "x">>}

ZeroYieldIsNotFailure ==
    (/\ blob.kind = "gzip"
     /\ fault = "none"
     /\ (IF blob.fname = <<>> THEN tex ELSE ext_of(blob.fname))
           \notin keep_extensions)
        => /\ result.size_before = Len(blob.content)
           /\ result.size_after = 0
           /\ result # Failure

AlwaysRateLimitedReturnsEmpty ==
    \A i \in DOMAIN pipe :
        LET c == pipe[i].call
        IN  c.requests > 0 /\ c.only_429 =>
              /\ c.pc \in {"loop", "exhausted"}
              /\ c.requests <= max_attempt
              /\ c.pc = "loop" => c.requests < max_attempt
              /\ c.pc = "exhausted" =>
                    /\ c.requests = max_attempt
                    /\ c.publication_venue = <<>>
                    /\ c.refs = <<>>

\* a call has returned after max_attempt answers, all of them 429
AlwaysRateLimitedWitness ==
    \E i \in DOMAIN pipe :
        /\ pipe[i].call.pc = "exhausted"
        /\ pipe[i].call.only_429
        /\ pipe[i].call.requests = max_attempt

\* C22: a call in which no attempt completed returns the empty venue and
\* the empty reference map: nothing a failed attempt wrote survives
ExhaustedReturnsEmpty ==
    \A i \in DOMAIN pipe :
        pipe[i].call.pc = "exhausted" =>
            /\ pipe[i].call.publication_venue = <<>>
            /\ pipe[i].call.refs = <<>>

\* C23: an item whose reference fetch exhausted its attempts ends with zero
\* references and reference_fetch_success false, success true, and its
\* identifier outside the failed list
ExhaustedFetchIsSoft ==
    \A i \in DOMAIN pipe :
        pipe[i].pc = "Done" /\ pipe[i].call.pc = "exhausted" =>
            /\ pipe[i].metrics.num_references = 0
            /\ ~pipe[i].metrics.reference_fetch_success
            /\ pipe[i].success
            /\ safe_id_of(i) \notin Range(progress.failed_papers)

\* C24: at most one worker at a time is inside a call of the API client,
\* its waits between attempts included
OneWorkerInsideClient ==
    \A i, j \in DOMAIN pipe :
        pipe[i].call.pc = "loop" /\ pipe[j].call.pc = "loop" => i = j

\* C26: an item for which discovery found no version goes straight to
\* Failed: no archive was fetched and the reference fetch was not called,
\* its outcome has success false and zero versions, sizes and references,
\* its identifier is in the failed list, and a failed item is not taken up
\* again
ZeroVersionsFailsDirectly ==
    [][\A i \in DOMAIN pipe :
         /\ pipe'[i].pc \notin {"start", "discovery"}
              /\ pipe'[i].latest_v = 0 =>
                /\ pipe'[i].pc = "Failed"
                /\ pipe'[i].fetches = 0
                /\ pipe'[i].ref_calls = 0
                /\ ~pipe'[i].success
                /\ pipe'[i].metrics = NewMetrics
                /\ safe_id_of(i) \in Range(progress'.failed_papers)
                /\ safe_id_of(i) \notin Range(progress'.completed_papers)
         /\ pipe[i].pc = "Failed" => pipe'[i] = pipe[i]]_vars

\* one item failed at discovery while the other one was completed
ZeroVersionsWitness ==
    \E i, j \in DOMAIN pipe :
        /\ pipe[i].pc = "Failed"
        /\ pipe[i].latest_v = 0
        /\ safe_id_of(i) \in Range(progress.failed_papers)
        /\ pipe[j].pc = "Done"

EveryVersionAttempted == v < latest_v => ~result.raised

\* C28: the reference fetch is called at most once per item, only after
\* the fetch of the last version, and an item that has ended with at
\* least one version discovered has had its call
ReferenceFetchExactlyOnce ==
    \A i \in DOMAIN pipe :
        /\ pipe[i].ref_calls <= 1
        /\ pipe[i].ref_calls = 1 => pipe[i].fetches = pipe[i].latest_v
        /\ pipe[i].pc \in {"Done", "Failed"} /\ pipe[i].latest_v >= 1 =>
              pipe[i].ref_calls = 1

\* C30: an item that failed after some versions were fetched returns the
\* number of versions and the sizes accumulated so far, success false and
\* zero references
PartialProgressKept ==
    \A i \in DOMAIN pipe :
        pipe[i].pc = "Failed" /\ pipe[i].fetches >= 1 =>
            /\ pipe[i].metrics.num_versions = pipe[i].latest_v
            /\ pipe[i].metrics.size_before = pipe[i].total_size_before
            /\ pipe[i].metrics.size_after = pipe[i].total_size_after
            /\ pipe[i].metrics.num_references = 0
            /\ ~pipe[i].success

\* C33: the storage keys of the ledger are a reversible substitution of the
\* canonical identifiers: every key in the completed or failed list is the
\* key of exactly one identifier of the range, and '-' replaced by '.' in
\* it gives that identifier back
StorageKeyIsReversible ==
    \A key \in Range(progress.completed_papers)
                \cup Range(progress.failed_papers) :
        /\ Cardinality({i \in Offsets : format_arxiv_id(arxiv_id_of(i)) = key})
               = 1
        /\ \E i \in Offsets :
              [k \in DOMAIN key |-> IF key[k] = "-" THEN "." ELSE key[k]]
                  = arxiv_id_of(i)

\* the run has stored the keys of two identifiers, one in each list
StorageKeyWitness ==
    /\ mainpc = "done"
    /\ \E i, j \in Offsets :
          /\ i # j
          /\ format_arxiv_id(arxiv_id_of(i))
                 \in Range(progress.completed_papers)
          /\ format_arxiv_id(arxiv_id_of(j)) \in Range(progress.failed_papers)

\* C35: an item for which discovery found at least one version and whose
\* reference step did not raise ends with success true and its identifier
\* in the completed list, whatever its version fetches gave
SuccessWhateverTheVersions ==
    \A i \in DOMAIN pipe :
        /\ pipe[i].pc \in {"Done", "Failed"}
        /\ pipe[i].latest_v >= 1
        /\ ~(pipe[i].pc = "Failed" /\ pipe[i].ref_calls = 1)
        => /\ pipe[i].success
           /\ safe_id_of(i) \in Range(progress.completed_papers)

\* C38: at most one worker is inside discovery, the worker inside it is the
\* holder of arxiv_download_lock, and the lock is free whenever no worker
\* is inside discovery: it was released on every exit and is not held
\* during version or reference fetches
DiscoveryIsSerialized ==
    /\ \A i, j \in DOMAIN pipe :
          pipe[i].pc = "discovery" /\ pipe[j].pc = "discovery" => i = j
    /\ \A i \in DOMAIN pipe :
          pipe[i].pc = "discovery" <=> arxiv_download_lock = i
    /\ (\A i \in DOMAIN pipe : pipe[i].pc # "discovery")
          => arxiv_download_lock = Free

\* a worker holds the lock inside discovery after the discovery of the
\* other worker has ended in the except branch
DiscoveryWitness ==
    \E i, j \in DOMAIN pipe :
        /\ pipe[i].pc = "Failed"
        /\ pipe[i].latest_v = 0
        /\ pipe[j].pc = "discovery"
        /\ arxiv_download_lock = j

\* C39: when download_and_extract_tex_bib returns, the temporary file of
\* the version is not in the version directory
TempFileRemoved ==
    called /\ ~result.raised =>
        \A version \in 1..(MaxVersions + 1) :
            temp_name(the_arxiv_id, version) \notin save_dir

\* the call has returned from its outer handler after the write of an
\* extracted file failed, the temporary file being there
TempFileRemovedWitness ==
    /\ fault = "extract_write"
    /\ blob.kind = "tar"
    /\ ~result.raised
    /\ ~result.success
    /\ temp_name(the_arxiv_id, v - 1) \notin save_dir

\* C31: whenever the process is killed, the checkpoint file is a complete
\* record that holds every sample collected so far but, at most, the last
CheckpointKeepsHistory ==
    Len(collector.samples) >= 2 =>
        /\ checkpoint.state = "valid"
        /\ Len(checkpoint.samples) >= Len(collector.samples) - 1
        /\ checkpoint.samples =
               SubSeq(collector.samples, 1, Len(checkpoint.samples))

\* C36: at most one monitor thread appends samples at any time, that is, at
\* most one is inside a loop whose condition holds
AtMostOneMonitorThread ==
    Cardinality({k \in 1..MaxStarts :
                    /\ monitor[k].pc \in {"while", "peaks", "save", "dump"}
                    /\ collector.monitoring}) <= 1

\* C37: at most one thread has the checkpoint file open for writing, and
\* a written checkpoint has peaks that are at least each of its samples
CheckpointWrittenByOne ==
    /\ Cardinality(writers) <= 1
    /\ checkpoint.state = "valid" =>
           \A n \in 1..Len(checkpoint.samples) :
              /\ checkpoint.samples[n].ram_mb <= checkpoint.peak_ram_mb
              /\ checkpoint.samples[n].disk_mb <= checkpoint.peak_disk_mb

\* C34: a result of get_statistics over a non-empty list has
\* successful_papers + failed_papers = total_papers_attempted, which is the
\* number of add_paper calls completed when it is returned
StatisticsAddUp ==
    (statistics.pc = "returned" /\ paper_metrics.loaded.papers = <<>>) =>
        /\ statistics.successful + statistics.failed
              = statistics.total_papers_attempted
        /\ statistics.total_papers_attempted = statistics.completed

\* C32: what load_checkpoint has loaded stays: the samples and the paper
\* records as a prefix, the start times as they are, the peaks as a minimum
LoadedStateKept ==
    /\ caller.loaded.state = "valid" =>
           /\ Len(caller.loaded.samples) <= Len(collector.samples)
           /\ caller.loaded.samples =
                  SubSeq(collector.samples, 1, Len(caller.loaded.samples))
           /\ collector.start_time = caller.loaded.start_time
           /\ collector.peak_ram_mb >= caller.loaded.peak_ram_mb
           /\ collector.peak_disk_mb >= caller.loaded.peak_disk_mb
    /\ paper_metrics.loaded.papers # <<>> =>
           /\ Len(paper_metrics.loaded.papers) <= Len(paper_metrics.papers)
           /\ paper_metrics.loaded.papers =
                  SubSeq(paper_metrics.papers, 1,
                         Len(paper_metrics.loaded.papers))
           /\ paper_metrics.start_time = paper_metrics.loaded.start_time

====
